---- MODULE Spec2Model ----
(***************************************************************************)
(* A model of the Avro container-file Writer (src/src/writer.rs) and of    *)
(* the Decimal logical type (src/src/decimal.rs).                          *)
(*                                                                         *)
(* Bytes are integers 0..255 and byte strings are sequences of bytes.      *)
(* The sink W is modelled as a growable byte vector whose write call       *)
(* either accepts the whole buffer or fails with an I/O error, writing     *)
(* nothing (a fault is an input of each operation).                        *)
(***************************************************************************)
EXTENDS Integers, Sequences, FiniteSets, TLC

VARIABLES
    \* ---- Writer fields (writer.rs:35-41) ----
    sink,          \* writer: W, the bytes the sink holds
    codec,         \* codec: Codec
    marker,        \* marker: Vec<u8>
    has_header,    \* has_header: bool
    released,      \* TRUE once into_inner has consumed the writer
    \* ---- history of the calls made on the writer ----
    marker0,       \* the marker chosen in with_codec
    ncalls,        \* number of calls made on the writer
    faulted,       \* a sink write has failed
    explicit_hdr,  \* the caller has called header() itself
    clean,         \* every call so far was an append/extend that returned Ok
    hist,          \* the batches of the successful append/extend calls, in order
    ret_sum,       \* sum of the values returned by successful append/extend calls
    marks,         \* sink lengths right after each append_marker write
    hdr_ends,      \* sink lengths right after each completed header()
    blk_starts,    \* sink lengths right before each block's first write
    last,          \* the last call: operation, arguments, result, sink before it
    \* ---- Decimal (decimal.rs): the operands and results of one evaluation ----
    da, db,        \* the Decimals self and other
    dlen,          \* the len passed to to_sign_extended_bytes_with_len
    overflow_checks, \* the build panics on integer overflow (debug) or wraps (release)
    eq_res,        \* result of da == db: "true", "false", "panic"; "none" before
    eq_mult,       \* the multiplier da == db scaled one unscaled value by
    bytes_res,     \* result of da.to_sign_extended_bytes_with_len(dlen)
    dc,            \* a third Decimal
    rel            \* results of the comparisons among da, db and dc

wvars == <<sink, codec, marker, has_header, released, marker0, ncalls, faulted,
           explicit_hdr, clean, hist, ret_sum, marks, hdr_ends, blk_starts, last>>

dvars == <<da, db, dlen, overflow_checks, eq_res, eq_mult, bytes_res, dc, rel>>

vars == <<wvars, dvars>>

----------------------------------------------------------------------------
(* Bounds of the model *)

\* the number of calls (header, append, extend, into_inner) made on the writer
MaxCalls == 2

----------------------------------------------------------------------------
(* Byte-string helpers *)

RECURSIVE Flatten(_)
Flatten(ss) == IF ss = <<>> THEN <<>> ELSE Head(ss) \o Flatten(Tail(ss))

----------------------------------------------------------------------------
(* The external encoder: given a schema and a value, its byte stream or a  *)
(* mismatch (None).  Modelled after the Avro binary encoding.              *)

\* zig-zag mapping of a signed long onto the naturals
ZigZag(n) == IF n >= 0 THEN 2 * n ELSE -2 * n - 1

\* base-128 little-endian variable-length encoding
RECURSIVE Varint(_)
Varint(z) == IF z < 128 THEN <<z>> ELSE <<128 + (z % 128)>> \o Varint(z \div 128)

EncodeLong(n) == Varint(ZigZag(n))

EncodeBytes(bs) == EncodeLong(Len(bs)) \o bs

Some(bs) == [some |-> TRUE, bytes |-> bs]
None == [some |-> FALSE, bytes |-> <<>>]

\* Values: Value::Long(n), Value::Bytes(b), Value::Fixed(b), Value::String,
\* and Value::Map of two entries <<key, bytes>>.
LongValue(n) == [kind |-> "long", n |-> n, bytes |-> <<>>, entries |-> <<>>]
BytesValue(bs) == [kind |-> "bytes", n |-> 0, bytes |-> bs, entries |-> <<>>]
FixedValue(bs) == [kind |-> "fixed", n |-> 0, bytes |-> bs, entries |-> <<>>]
StringValue(bs) == [kind |-> "string", n |-> 0, bytes |-> bs, entries |-> <<>>]
MapValue(es) == [kind |-> "map", n |-> 0, bytes |-> <<>>, entries |-> es]

RECURSIVE EncodeEntries(_)
EncodeEntries(es) ==
    IF es = <<>> THEN <<>>
    ELSE EncodeBytes(Head(es)[1]) \o EncodeBytes(Head(es)[2]) \o EncodeEntries(Tail(es))

\* value.encode(schema): Some(stream) when the value matches the schema
Encode(schema, value) ==
    CASE schema.kind = "long" /\ value.kind = "long" -> Some(EncodeLong(value.n))
      [] schema.kind = "bytes" /\ value.kind = "bytes" -> Some(EncodeBytes(value.bytes))
      [] schema.kind = "fixed" /\ value.kind = "fixed" /\ Len(value.bytes) = schema.size
            -> Some(value.bytes)
      [] schema.kind = "map" /\ value.kind = "map"
            -> Some(IF value.entries = <<>> THEN <<0>>
                    ELSE EncodeLong(Len(value.entries)) \o EncodeEntries(value.entries) \o <<0>>)
      [] OTHER -> None

LongSchema == [kind |-> "long", size |-> 0]
FixedSchema(n) == [kind |-> "fixed", size |-> n]
MapOfBytesSchema == [kind |-> "map", size |-> 0]

\* the writer's schema, and its JSON text "long" (with the quotes)
WriterSchema == LongSchema
SchemaJson == <<34, 108, 111, 110, 103, 34>>

\* the values callers pass: two longs with encodings of different lengths
\* (1 -> 02, 64 -> 80 01) and a string, which does not match the schema
GoodValues == {LongValue(1), LongValue(64)}
BadValues == {StringValue(<<120>>)}
Values == GoodValues \cup BadValues
\* the batches passed to extend: none, one or two values
Batches == {<<>>} \cup {<<v>> : v \in Values} \cup {<<u, v>> : u \in Values, v \in Values}

----------------------------------------------------------------------------
(* Codec (writer.rs:16-33) and the compression step of extend *)

Codecs == {"Null", "Deflate", "Snappy"}

\* every codec recorded under the name "null"
CodecAvroNull(c) == BytesValue(<<110, 117, 108, 108>>)

\* impl ToAvro for Codec: the codec's name as Value::Bytes
\* "null", "deflate", "snappy" in ASCII
CodecAvro(c) ==
    BytesValue(CASE c = "Null" -> <<110, 117, 108, 108>>
                 [] c = "Deflate" -> <<100, 101, 102, 108, 97, 116, 101>>
                 [] c = "Snappy" -> <<115, 110, 97, 112, 112, 121>>)

LE16(n) == <<n % 256, (n \div 256) % 256>>
LE24(n) == <<n % 256, (n \div 256) % 256, (n \div 65536) % 256>>

\* Encoder::new(Vec::new()); write; finish: one complete deflate stream that
\* inflates to the input.  The stream is modelled in its stored (BTYPE=00,
\* BFINAL=1) form: 01, LEN, ~LEN, data.
DeflateEncode(stream) ==
    <<1>> \o LE16(Len(stream)) \o LE16(65535 - Len(stream)) \o stream

\* a 4-byte check value over the chunk's data (stands for the masked CRC-32C)
RECURSIVE ByteSum(_)
ByteSum(bs) == IF bs = <<>> THEN 0 ELSE Head(bs) + ByteSum(Tail(bs))
Checksum(bs) == LE16(ByteSum(bs) % 65536) \o LE16((ByteSum(bs) + Len(bs)) % 65536)

\* SnappyWriter::new(Vec::new()); write; into_inner: the snappy frame format:
\* nothing for empty input, otherwise the stream identifier chunk followed by
\* one (uncompressed, type 01) data chunk: type, 3-byte length, check, data.
SnappyEncode(stream) ==
    IF stream = <<>> THEN <<>>
    ELSE <<255, 6, 0, 0, 115, 78, 97, 80, 112, 89>>
         \o <<1>> \o LE24(Len(stream) + 4) \o Checksum(stream) \o stream

\* stream = match self.codec { ... } (writer.rs:106-118)
Compress(c, stream) ==
    CASE c = "Null" -> stream
      [] c = "Deflate" -> DeflateEncode(stream)
      [] c = "Snappy" -> SnappyEncode(stream)

----------------------------------------------------------------------------
(* The writer's operations as functions on a writer record                 *)
(*   w = [sink, codec, marker, has_header, marks, hdr_ends, blk_starts]    *)
(* and on the progress of one call                                         *)
(*   io = [w, ok, err, n, fuse]                                            *)
(* ok: no error has been returned so far (after an error every later step  *)
(* of the call is skipped, as the ? operator returns at once); err: the     *)
(* error; n: the sum of the byte counts returned so far; fuse: k > 0 when   *)
(* the k-th next sink write fails, 0 when none does.                        *)

MarkerLen == 16

\* the markers with_codec may draw (two of the 256^16)
Markers == { [i \in 1..MarkerLen |-> 7], [i \in 1..MarkerLen |-> (i * 37) % 256] }

Start(w, fuse) == [w |-> w, ok |-> TRUE, err |-> "none", n |-> 0, fuse |-> fuse]

Fail(io, e) == [io EXCEPT !.ok = FALSE, !.err = e]

\* a write that starts again at the beginning of the sink
SinkRewrite(io, buf) ==
    IF ~io.ok THEN io
    ELSE IF io.fuse = 1 THEN [Fail(io, "io") EXCEPT !.fuse = 0]
    ELSE [io EXCEPT !.w.sink = buf,
                    !.n = @ + Len(buf),
                    !.fuse = IF @ = 0 THEN 0 ELSE @ - 1]

\* a write whose error is not propagated: the writes after it still happen
SinkWriteOn(io, buf) ==
    IF io.ok /\ io.fuse = 1 THEN [Fail(io, "io") EXCEPT !.fuse = 0]
    ELSE [io EXCEPT !.w.sink = @ \o buf,
                    !.n = @ + Len(buf),
                    !.fuse = IF @ = 0 THEN 0 ELSE @ - 1]

\* self.writer.write(buf)?
SinkWrite(io, buf) ==
    IF ~io.ok THEN io
    ELSE IF io.fuse = 1 THEN [Fail(io, "io") EXCEPT !.fuse = 0]
    ELSE [io EXCEPT !.w.sink = @ \o buf,
                    !.n = @ + Len(buf),
                    !.fuse = IF @ = 0 THEN 0 ELSE @ - 1]

\* the history: a marker write ended at the sink's present length
NoteMarker(io, out) ==
    IF out.ok /\ io.ok THEN [out EXCEPT !.w.marks = @ \cup {Len(out.w.sink)}] ELSE out

\* append_marker drawing a new marker for the next block
AppendMarkerFresh(io) ==
    [NoteMarker(io, SinkWrite(io, io.w.marker))
        EXCEPT !.w.marker = [i \in 1..Len(@) |-> (@[i] + 1) % 256]]

\* fn append_marker (writer.rs:79-83)
AppendMarker(io) == NoteMarker(io, SinkWrite(io, io.w.marker))

\* the match of append_raw on the encoder's result
WriteEncoded(io, e) == IF e.some THEN SinkWrite(io, e.bytes) ELSE Fail(io, "schema")

\* fn append_raw (writer.rs:85-90)
AppendRaw(io, schema, value) ==
    IF ~io.ok THEN io ELSE WriteEncoded(io, Encode(schema, value))

Magic == <<79, 98, 106, 1>>

\* "avro.schema" and "avro.codec" in ASCII
KeySchema == <<97, 118, 114, 111, 46, 115, 99, 104, 101, 109, 97>>
KeyCodec == <<97, 118, 114, 111, 46, 99, 111, 100, 101, 99>>

\* metadata.avro(): the HashMap as a map value; a HashMap iterates in an
\* unspecified order, schemaFirst is the order this instance iterates in
Metadata(c, schemaFirst) ==
    MapValue(IF schemaFirst
             THEN <<<<KeySchema, SchemaJson>>, <<KeyCodec, CodecAvro(c).bytes>>>>
             ELSE <<<<KeyCodec, CodecAvro(c).bytes>>, <<KeySchema, SchemaJson>>>>)

\* the history: a header() call completed at the sink's present length
NoteHeader(io, out) ==
    IF out.ok /\ io.ok THEN [out EXCEPT !.w.hdr_ends = @ \cup {Len(out.w.sink)}] ELSE out

\* pub fn header (writer.rs:63-73): magic, metadata, marker
Header(io, schemaFirst) ==
    NoteHeader(io,
        AppendMarker(
            AppendRaw(
                AppendRaw(io, FixedSchema(4), FixedValue(Magic)),
                MapOfBytesSchema, Metadata(io.w.codec, schemaFirst))))

\* the streams of the values that match the schema, the others skipped
RECURSIVE EncodeMatching(_, _)
EncodeMatching(schema, values) ==
    IF values = <<>> THEN Some(<<>>)
    ELSE IF Encode(schema, Head(values)).some
         THEN Some(<<Encode(schema, Head(values)).bytes>>
                   \o EncodeMatching(schema, Tail(values)).bytes)
         ELSE EncodeMatching(schema, Tail(values))

\* values.map(|value| value.avro().encode(self.schema)).collect::<Option<Vec<_>>>()
RECURSIVE EncodeAll(_, _)
EncodeAll(schema, values) ==
    IF values = <<>> THEN Some(<<>>)
    ELSE IF Encode(schema, Head(values)).some /\ EncodeAll(schema, Tail(values)).some
         THEN Some(<<Encode(schema, Head(values)).bytes>>
                   \o EncodeAll(schema, Tail(values)).bytes)
         ELSE None

\* the flag set whether or not header() returned Ok
SetHasHeaderEarly(hd) == [hd EXCEPT !.w.has_header = TRUE, !.n = 0]

\* self.has_header = true, once header() has returned Ok; the byte count it
\* returned is dropped
SetHasHeader(hd) == IF hd.ok THEN [hd EXCEPT !.w.has_header = TRUE, !.n = 0] ELSE hd

\* extend writing the header whenever it is called
HeaderAlways(io, schemaFirst) == SetHasHeader(Header(io, schemaFirst))

\* if !self.has_header { self.header()?; self.has_header = true; }
\* (writer.rs:120-123)
HeaderIfDue(io, schemaFirst) ==
    IF ~io.w.has_header THEN SetHasHeader(Header(io, schemaFirst)) ELSE io

\* the history: a block starts at the sink's present length
NoteBlock(h) == IF h.ok THEN [h EXCEPT !.w.blk_starts = @ \cup {Len(h.w.sink)}] ELSE h

\* the four writes of a block: count, length, payload, marker (writer.rs:125-128)
WriteBlock(io, num_values, stream) ==
    AppendMarker(
        SinkWrite(
            AppendRaw(
                AppendRaw(NoteBlock(io), LongSchema, LongValue(num_values)),
                LongSchema, LongValue(Len(stream))),
            stream))

RECURSIVE CompressEach(_, _)
CompressEach(c, streams) ==
    IF streams = <<>> THEN <<>>
    ELSE Compress(c, Head(streams)) \o CompressEach(c, Tail(streams))

\* the codec applied to each value's stream instead of once to their concatenation
CompressPerValue(io, streams, codecFails, schemaFirst) ==
    IF ~streams.some THEN Fail(io, "schema")
    ELSE IF codecFails THEN Fail(io, "codec")
    ELSE WriteBlock(HeaderIfDue(io, schemaFirst), Len(streams.bytes),
                    CompressEach(io.w.codec, streams.bytes))

\* extend returning at once, with nothing written, when there are no values
ExtendSkipEmpty(io, streams, codecFails, schemaFirst) ==
    IF ~streams.some THEN Fail(io, "schema")
    ELSE IF streams.bytes = <<>> THEN io
    ELSE IF codecFails THEN Fail(io, "codec")
    ELSE WriteBlock(HeaderIfDue(io, schemaFirst), Len(streams.bytes),
                    Compress(io.w.codec, Flatten(streams.bytes)))

\* extend writing the header before it looks at the encoder's and the codec's results
ExtendHeaderFirst(io, streams, codecFails, schemaFirst) ==
    IF ~streams.some THEN Fail(HeaderIfDue(io, schemaFirst), "schema")
    ELSE IF codecFails THEN Fail(HeaderIfDue(io, schemaFirst), "codec")
    ELSE WriteBlock(HeaderIfDue(io, schemaFirst), Len(streams.bytes),
                    Compress(io.w.codec, Flatten(streams.bytes)))

\* extend from the collected streams on: the early return on a mismatch, the
\* fold and the codec (an error of the encoder returns before any write),
\* the header if due, the block (writer.rs:99-128)
ExtendEncoded(io, streams, codecFails, schemaFirst) ==
    IF ~streams.some THEN Fail(io, "schema")
    ELSE IF codecFails THEN Fail(io, "codec")
    ELSE WriteBlock(HeaderIfDue(io, schemaFirst), Len(streams.bytes),
                    Compress(io.w.codec, Flatten(streams.bytes)))

\* pub fn extend (writer.rs:92-129); codecFails: the encoder returns an error
Extend(io, values, codecFails, schemaFirst) ==
    ExtendEncoded(io, EncodeAll(WriterSchema, values), codecFails, schemaFirst)

\* append writing its block without the header check
AppendBlockOnly(io, value, codecFails, schemaFirst) ==
    IF ~Encode(WriterSchema, value).some THEN Fail(io, "schema")
    ELSE IF codecFails THEN Fail(io, "codec")
    ELSE WriteBlock(io, 1, Compress(io.w.codec, Encode(WriterSchema, value).bytes))

\* pub fn append (writer.rs:75-77)
AppendOne(io, value, codecFails, schemaFirst) ==
    Extend(io, <<value>>, codecFails, schemaFirst)

----------------------------------------------------------------------------
(* BigInt (num_bigint): a sign and a magnitude.  The magnitude is a        *)
(* little-endian sequence of base-256 digits without leading (high) zeros; *)
(* zero is the empty magnitude with sign NoSign.                           *)

RECURSIVE MagNorm(_)
MagNorm(m) ==
    IF m = <<>> THEN <<>>
    ELSE IF m[Len(m)] = 0 THEN MagNorm(SubSeq(m, 1, Len(m) - 1)) ELSE m

RECURSIVE NatToMag(_)
NatToMag(n) == IF n = 0 THEN <<>> ELSE <<n % 256>> \o NatToMag(n \div 256)

RECURSIVE MagMulSmall(_, _, _)
MagMulSmall(m, k, carry) ==
    IF m = <<>> THEN NatToMag(carry)
    ELSE LET t == Head(m) * k + carry
         IN  <<t % 256>> \o MagMulSmall(Tail(m), k, t \div 256)

RECURSIVE MagAdd(_, _, _)
MagAdd(a, b, carry) ==
    IF a = <<>> /\ b = <<>> THEN NatToMag(carry)
    ELSE LET x == IF a = <<>> THEN 0 ELSE Head(a)
             y == IF b = <<>> THEN 0 ELSE Head(b)
             t == x + y + carry
         IN  <<t % 256>> \o MagAdd(IF a = <<>> THEN a ELSE Tail(a),
                                   IF b = <<>> THEN b ELSE Tail(b), t \div 256)

RECURSIVE MagMul(_, _)
MagMul(a, b) ==
    IF a = <<>> \/ b = <<>> THEN <<>>
    ELSE MagNorm(MagAdd(MagMulSmall(a, Head(b), 0), <<0>> \o MagMul(a, Tail(b)), 0))

BigOfMag(negative, m) ==
    [sign |-> IF MagNorm(m) = <<>> THEN "NoSign" ELSE IF negative THEN "Minus" ELSE "Plus",
     mag |-> MagNorm(m)]

\* BigInt::from of a machine integer
BigFromInt(n) == BigOfMag(n < 0, NatToMag(IF n < 0 THEN -n ELSE n))

\* &x * y on BigInts: exact
BigMul(x, y) == BigOfMag(x.sign # y.sign, MagMul(x.mag, y.mag))

\* the exact power 10^e as a BigInt (by squaring)
RECURSIVE BigPow10(_)
BigPow10(e) ==
    IF e = 0 THEN BigFromInt(1)
    ELSE LET half == BigPow10(e \div 2)
             sq == BigMul(half, half)
         IN  IF e % 2 = 1 THEN BigMul(sq, BigFromInt(10)) ELSE sq

----------------------------------------------------------------------------
(* u64 arithmetic: 8 little-endian base-256 digits *)

U64Bytes == 8

PadTo(m, n) == m \o [i \in 1..(n - Len(m)) |-> 0]

U64FromNat(n) == PadTo(NatToMag(n), U64Bytes)

\* x * y in u64 arithmetic: the low 64 bits of the product, and whether the
\* product exceeds them
U64Mul(x, y) ==
    LET prod == MagMul(MagNorm(x), MagNorm(y))
    IN  [val |-> IF Len(prod) > U64Bytes THEN SubSeq(prod, 1, U64Bytes)
                 ELSE PadTo(prod, U64Bytes),
         overflow |-> Len(prod) > U64Bytes]

\* the loop of u64::pow: while exp > 1 { if exp odd { acc *= base }; exp /= 2;
\* base *= base }; acc * base.  Each product is taken modulo 2^64; overflow
\* records that one of them did not fit.
RECURSIVE U64PowLoop(_, _, _, _)
U64PowLoop(base, acc, exp, overflow) ==
    IF exp > 1 THEN
        LET a == IF exp % 2 = 1 THEN U64Mul(acc, base) ELSE [val |-> acc, overflow |-> FALSE]
            b == U64Mul(base, base)
        IN  U64PowLoop(b.val, a.val, exp \div 2, overflow \/ a.overflow \/ b.overflow)
    ELSE LET r == U64Mul(acc, base)
         IN  [val |-> r.val, overflow |-> overflow \/ r.overflow]

\* 10u64.pow(exp): the value modulo 2^64 (what a build without overflow checks
\* returns), and whether a product overflowed (a build with overflow checks
\* panics there)
U64Pow10(exp) ==
    IF exp = 0 THEN [val |-> U64FromNat(1), overflow |-> FALSE]
    ELSE U64PowLoop(U64FromNat(10), U64FromNat(1), exp, FALSE)

\* BigInt::from(u64)
BigFromU64(x) == BigOfMag(FALSE, x)

----------------------------------------------------------------------------
(* Decimal (decimal.rs:4-9) *)

Decimal(v, p, s) == [value |-> v, precision |-> p, scale |-> s]

\* impl PartialEq for Decimal, fn eq (decimal.rs:12-24).  The parameter is
\* named other and the two scaling branches call it rhs: both are the
\* right-hand operand.  The result is "true", "false", or "panic" when
\* 10u64.pow overflows in a build with overflow checks.
DecimalEq(self, other, checks) ==
    IF self.scale = other.scale THEN
        IF self.value = other.value THEN "true" ELSE "false"
    ELSE IF self.scale > other.scale THEN
        LET p == U64Pow10(self.scale - other.scale)
            scaled_value == BigMul(other.value, BigFromU64(p.val))
        IN  IF p.overflow /\ checks THEN "panic"
            ELSE IF self.value = scaled_value THEN "true" ELSE "false"
    ELSE
        LET p == U64Pow10(other.scale - self.scale)
            scaled_value == BigMul(self.value, BigFromU64(p.val))
        IN  IF p.overflow /\ checks THEN "panic"
            ELSE IF scaled_value = other.value THEN "true" ELSE "false"

\* BigInt::from(10u64.pow(..)) of fn eq (decimal.rs:17, 20): the factor the
\* unscaled value of the operand with the smaller scale is multiplied by, as
\* a build without overflow checks computes it (zero when the scales agree
\* and nothing is multiplied)
ScaleMultiplier(self, other) ==
    IF self.scale = other.scale THEN BigFromInt(0)
    ELSE IF self.scale > other.scale THEN BigFromU64(U64Pow10(self.scale - other.scale).val)
    ELSE BigFromU64(U64Pow10(other.scale - self.scale).val)

Reverse(s) == [i \in 1..Len(s) |-> s[Len(s) + 1 - i]]

\* two's complement of a little-endian digit string: invert, add one
RECURSIVE TwosComplement(_, _)
TwosComplement(m, carry) ==
    IF m = <<>> THEN <<>>
    ELSE LET t == (255 - Head(m)) + carry
         IN  <<t % 256>> \o TwosComplement(Tail(m), t \div 256)

\* to_signed_bytes_be without the zero byte in front of a set top bit
ToUnpaddedBytesBe(v) ==
    LET mag == IF v.mag = <<>> THEN <<0>> ELSE v.mag
    IN  Reverse(IF v.sign = "Minus" THEN TwosComplement(mag, 1) ELSE mag)

\* BigInt::to_signed_bytes_be: the big-endian magnitude (one zero byte for
\* zero), with a zero byte put in front when its top bit is taken, unless the
\* value is minus a power of two that fills the top bit exactly; negated in
\* two's complement for a negative value
ToSignedBytesBe(v) ==
    LET mag == IF v.mag = <<>> THEN <<0>> ELSE v.mag
        top == mag[Len(mag)]
        exact == /\ top = 128
                 /\ \A i \in 1..(Len(mag) - 1) : mag[i] = 0
                 /\ v.sign = "Minus"
        ext == IF top > 127 /\ ~exact THEN mag \o <<0>> ELSE mag
    IN  Reverse(IF v.sign = "Minus" THEN TwosComplement(ext, 1) ELSE ext)

OkBytes(bs) == [ok |-> TRUE, bytes |-> bs, requested |-> 0, needed |-> 0]
SignExtendErr(req, need) == [ok |-> FALSE, bytes |-> <<>>, requested |-> req, needed |-> need]
NoBytes == [ok |-> FALSE, bytes |-> <<>>, requested |-> -1, needed |-> -1]

\* to_sign_extended_bytes_with_len padding with zero bytes whatever the sign
ToZeroExtendedBytesWithLen(self, len) ==
    LET decimal_bytes == [i \in 1..len |-> 0]
        raw_bytes == ToSignedBytesBe(self.value)
        num_raw_bytes == Len(raw_bytes)
    IN  IF len < num_raw_bytes THEN SignExtendErr(len, num_raw_bytes)
        ELSE LET start_byte_index == len - num_raw_bytes
             IN  OkBytes([i \in 1..len |->
                            IF i > start_byte_index THEN raw_bytes[i - start_byte_index]
                            ELSE decimal_bytes[i]])

\* fn to_sign_extended_bytes_with_len (decimal.rs:27-38)
ToSignExtendedBytesWithLen(self, len) ==
    LET sign_byte == 255 * (IF self.value.sign = "Minus" THEN 1 ELSE 0)
        decimal_bytes == [i \in 1..len |-> sign_byte]
        raw_bytes == ToSignedBytesBe(self.value)
        num_raw_bytes == Len(raw_bytes)
    IN  IF len < num_raw_bytes THEN SignExtendErr(len, num_raw_bytes)
        ELSE LET start_byte_index == len - num_raw_bytes
             IN  OkBytes([i \in 1..len |->
                            IF i > start_byte_index THEN raw_bytes[i - start_byte_index]
                            ELSE decimal_bytes[i]])

----------------------------------------------------------------------------
(* The operands the Decimal operations are evaluated on *)

\* the largest scale, and the largest power of ten among the unscaled values
MaxScale == 20
\* the largest len passed to to_sign_extended_bytes_with_len
MaxLen == 3
\* the largest precision
MaxPrecision == 2

Scales == {0, 1, 2, MaxScale - 1, MaxScale}
Precisions == 1..MaxPrecision

\* unscaled values c * 10^k
EqValues ==
    {BigMul(BigFromInt(coeff), BigPow10(pw)) : coeff \in {-1, 0, 123}, pw \in Scales}

\* unscaled values around the byte-width boundaries
ByteInts == {-8388609, -8388608, -32769, -32768, -129, -128, -127, -1, 0, 1,
             127, 128, 255, 256, 32767, 32768, 8388607, 8388608}

ZeroDecimal == Decimal(BigFromInt(0), 1, 0)

\* the Decimals compared three at a time: 123, 1230 and 123 * 10^MaxScale at
\* the scales 0, 1 and MaxScale, at the least and the largest precision
RelScales == {0, 1, MaxScale}
RelPrecisions == {1, MaxPrecision}
RelDecimals ==
    {Decimal(BigMul(BigFromInt(123), BigPow10(pw)), prec, sc) :
        pw \in RelScales, prec \in RelPrecisions, sc \in RelScales}

\* no comparison among three Decimals has been evaluated
NoRel == [aa |-> "none", ab |-> "none", ba |-> "none", bc |-> "none", ac |-> "none",
          abp |-> "none"]

\* no Decimal operation is being evaluated
DecimalIdle ==
    /\ da = ZeroDecimal
    /\ db = ZeroDecimal
    /\ dlen = 0
    /\ overflow_checks = FALSE
    /\ eq_res = "none"
    /\ eq_mult = BigFromInt(0)
    /\ bytes_res = NoBytes
    /\ dc = ZeroDecimal
    /\ rel = NoRel

----------------------------------------------------------------------------
(* The state machine: one Writer, constructed by with_codec, on which the  *)
(* caller makes up to MaxCalls header/append/extend calls and which it may *)
(* release with into_inner.                                                *)

WriterRec ==
    [sink |-> sink, codec |-> codec, marker |-> marker, has_header |-> has_header,
     marks |-> marks, hdr_ends |-> hdr_ends, blk_starts |-> blk_starts]

NoCall ==
    [op |-> "none", vals |-> <<>>, ok |-> TRUE, err |-> "none", n |-> 0,
     pre |-> <<>>, hdr_due |-> FALSE]

\* pub fn new / pub fn with_codec (writer.rs:44-61)
WriterInit ==
    /\ sink = <<>>
    /\ codec \in Codecs
    /\ marker \in Markers
    /\ has_header = FALSE
    /\ released = FALSE
    /\ marker0 = marker
    /\ ncalls = 0
    /\ faulted = FALSE
    /\ explicit_hdr = FALSE
    /\ clean = TRUE
    /\ hist = <<>>
    /\ ret_sum = 0
    /\ marks = {}
    /\ hdr_ends = {}
    /\ blk_starts = {}
    /\ last = NoCall

\* the writer is alive and the inputs of a call are admissible: the sink
\* faults at most once, only Deflate and Snappy can return a codec error, and
\* the metadata order is an input only of a call that writes the header
CanCall(fuse, codecFails, schemaFirst, headerDue) ==
    /\ ~released
    /\ ncalls < MaxCalls
    /\ fuse > 0 => ~faulted
    /\ codecFails => codec # "Null"
    /\ ~headerDue => schemaFirst

\* a fault or a codec error among the inputs is one the call runs into
Reached(out, fuse, codecFails) ==
    /\ fuse > 0 => out.err = "io"
    /\ codecFails => out.err = "codec"

\* the call's effect on the writer and on the history
Commit(op, vals, out) ==
    /\ sink' = out.w.sink
    /\ codec' = out.w.codec
    /\ marker' = out.w.marker
    /\ has_header' = out.w.has_header
    /\ marks' = out.w.marks
    /\ hdr_ends' = out.w.hdr_ends
    /\ blk_starts' = out.w.blk_starts
    /\ ncalls' = ncalls + 1
    /\ faulted' = (faulted \/ out.err = "io")
    /\ explicit_hdr' = (explicit_hdr \/ op = "header")
    /\ clean' = (clean /\ out.ok /\ op # "header")
    /\ hist' = IF out.ok /\ op # "header" THEN Append(hist, vals) ELSE hist
    /\ ret_sum' = IF out.ok /\ op # "header" THEN ret_sum + out.n ELSE ret_sum
    /\ last' = [op |-> op, vals |-> vals, ok |-> out.ok, err |-> out.err, n |-> out.n,
                pre |-> sink, hdr_due |-> ~has_header]
    /\ UNCHANGED <<released, marker0>>
    /\ UNCHANGED dvars

HeaderWrites == 3
BlockWrites == 4

\* writer.header()
CallHeader ==
    \E fuse \in 0..HeaderWrites, schemaFirst \in BOOLEAN :
        /\ CanCall(fuse, FALSE, schemaFirst, TRUE)
        /\ LET out == Header(Start(WriterRec, fuse), schemaFirst)
           IN  /\ Reached(out, fuse, FALSE)
               /\ Commit("header", <<>>, out)

\* writer.extend(values)
CallExtend ==
    \E values \in Batches, fuse \in 0..(HeaderWrites + BlockWrites),
       codecFails \in BOOLEAN, schemaFirst \in BOOLEAN :
        /\ CanCall(fuse, codecFails, schemaFirst, ~has_header)
        /\ LET out == Extend(Start(WriterRec, fuse), values, codecFails, schemaFirst)
           IN  /\ Reached(out, fuse, codecFails)
               /\ Commit("extend", values, out)

\* writer.append(value)
CallAppend ==
    \E value \in Values, fuse \in 0..(HeaderWrites + BlockWrites),
       codecFails \in BOOLEAN, schemaFirst \in BOOLEAN :
        /\ CanCall(fuse, codecFails, schemaFirst, ~has_header)
        /\ LET out == AppendOne(Start(WriterRec, fuse), value, codecFails, schemaFirst)
           IN  /\ Reached(out, fuse, codecFails)
               /\ Commit("append", <<value>>, out)

\* into_inner writing a closing marker before it returns the sink
IntoInnerFlushing ==
    /\ ~released
    /\ ncalls < MaxCalls
    /\ released' = TRUE
    /\ ncalls' = ncalls + 1
    /\ sink' = sink \o marker
    /\ UNCHANGED <<codec, marker, has_header, marker0, faulted,
                   explicit_hdr, clean, hist, ret_sum, marks, hdr_ends, blk_starts, last>>
    /\ UNCHANGED dvars

\* pub fn into_inner (writer.rs:131-133)
IntoInner ==
    /\ ~released
    /\ ncalls < MaxCalls
    /\ released' = TRUE
    /\ ncalls' = ncalls + 1
    /\ UNCHANGED <<sink, codec, marker, has_header, marker0, faulted,
                   explicit_hdr, clean, hist, ret_sum, marks, hdr_ends, blk_starts, last>>
    /\ UNCHANGED dvars

Init == WriterInit /\ DecimalIdle

Next == CallHeader \/ CallExtend \/ CallAppend \/ IntoInner

Spec == Init /\ [][Next]_vars

----------------------------------------------------------------------------
(* The Decimal operations, evaluated on the operands above *)

\* no Writer exists
WriterIdle ==
    /\ sink = <<>>
    /\ codec = "Null"
    /\ marker = <<>>
    /\ has_header = FALSE
    /\ released = TRUE
    /\ marker0 = <<>>
    /\ ncalls = 0
    /\ faulted = FALSE
    /\ explicit_hdr = FALSE
    /\ clean = TRUE
    /\ hist = <<>>
    /\ ret_sum = 0
    /\ marks = {}
    /\ hdr_ends = {}
    /\ blk_starts = {}
    /\ last = NoCall

\* ---- equality: two Decimals, compared both ways ----

EqInit ==
    /\ WriterIdle
    /\ da \in {Decimal(val, prec, sc) : val \in EqValues, prec \in Precisions, sc \in Scales}
    /\ db \in {Decimal(val, prec, sc) : val \in EqValues, prec \in Precisions, sc \in Scales}
    /\ dlen = 0
    /\ overflow_checks \in BOOLEAN
    /\ eq_res = "none"
    /\ eq_mult = BigFromInt(0)
    /\ bytes_res = NoBytes
    /\ dc = ZeroDecimal
    /\ rel = NoRel

\* da == db
EvalEq ==
    /\ eq_res = "none"
    /\ eq_res' = DecimalEq(da, db, overflow_checks)
    /\ eq_mult' = ScaleMultiplier(da, db)
    /\ UNCHANGED <<da, db, dlen, overflow_checks, bytes_res, dc, rel>>
    /\ UNCHANGED wvars

EqNext == EvalEq

EqSpec == EqInit /\ [][EqNext]_vars

\* ---- sign extension: one Decimal and a length ----

BytesInit ==
    /\ WriterIdle
    /\ da \in {Decimal(BigFromInt(int), prec, 0) : int \in ByteInts, prec \in Precisions}
    /\ db = ZeroDecimal
    /\ dlen \in 0..MaxLen
    /\ overflow_checks = FALSE
    /\ eq_res = "none"
    /\ eq_mult = BigFromInt(0)
    /\ bytes_res = NoBytes
    /\ dc = ZeroDecimal
    /\ rel = NoRel

\* da.to_sign_extended_bytes_with_len(dlen)
EvalBytes ==
    /\ bytes_res = NoBytes
    /\ bytes_res' = ToSignExtendedBytesWithLen(da, dlen)
    /\ UNCHANGED <<da, db, dlen, overflow_checks, eq_res, eq_mult, dc, rel>>
    /\ UNCHANGED wvars

BytesNext == EvalBytes

BytesSpec == BytesInit /\ [][BytesNext]_vars

\* ---- equality among three Decimals ----

RelInit ==
    /\ WriterIdle
    /\ da \in RelDecimals
    /\ db \in RelDecimals
    /\ dc \in RelDecimals
    /\ dlen = 0
    /\ overflow_checks \in BOOLEAN
    /\ eq_res = "none"
    /\ eq_mult = BigFromInt(0)
    /\ bytes_res = NoBytes
    /\ rel = NoRel

\* da == da, da == db, db == da, db == dc, da == dc, and da == db with db's
\* precision replaced by dc's
EvalRel ==
    /\ rel = NoRel
    /\ rel' = [aa |-> DecimalEq(da, da, overflow_checks),
               ab |-> DecimalEq(da, db, overflow_checks),
               ba |-> DecimalEq(db, da, overflow_checks),
               bc |-> DecimalEq(db, dc, overflow_checks),
               ac |-> DecimalEq(da, dc, overflow_checks),
               abp |-> DecimalEq(da, [db EXCEPT !.precision = dc.precision],
                                 overflow_checks)]
    /\ UNCHANGED <<da, db, dc, dlen, overflow_checks, eq_res, eq_mult, bytes_res>>
    /\ UNCHANGED wvars

RelNext == EvalRel

RelSpec == RelInit /\ [][RelNext]_vars

----------------------------------------------------------------------------
(* The container file layout the properties below are stated against:      *)
(* MAGIC, METADATA, SYNC, then per block COUNT, LEN, DATA, SYNC.           *)

\* the header of a file written with the codec and marker chosen at construction
ExpectedHeader(schemaFirst) ==
    <<79, 98, 106, 1>>
    \o Encode(MapOfBytesSchema, Metadata(codec, schemaFirst)).bytes
    \o marker0

\* the concatenation of the values' individual encodings, in order
RECURSIVE Encodings(_)
Encodings(vals) ==
    IF vals = <<>> THEN <<>>
    ELSE Encode(WriterSchema, Head(vals)).bytes \o Encodings(Tail(vals))

\* the block of one call: count, payload length, payload, marker
ExpectedBlock(vals) ==
    LET payload == Compress(codec, Encodings(vals))
    IN  EncodeLong(Len(vals)) \o EncodeLong(Len(payload)) \o payload \o marker0

RECURSIVE ExpectedBlocks(_)
ExpectedBlocks(batches) ==
    IF batches = <<>> THEN <<>>
    ELSE ExpectedBlock(Head(batches)) \o ExpectedBlocks(Tail(batches))

IsAppendOrExtend(op) == op \in {"append", "extend"}

\* C1: after a sequence of successful append/extend calls with conforming
\* values (and no other call), the sink holds exactly one header followed by
\* one block per call, in call order; each block is the record count, the
\* payload length, the codec applied once to the concatenated encodings, and
\* the marker.
C1_FileLayout ==
    (clean /\ hist # <<>>) =>
        \E schemaFirst \in BOOLEAN :
            sink = ExpectedHeader(schemaFirst) \o ExpectedBlocks(hist)

\* two successful calls on a compressing writer, the first with two values of
\* different encodings
C1_Witness ==
    /\ clean
    /\ Len(hist) = 2
    /\ hist[1] = <<LongValue(64), LongValue(1)>>
    /\ hist[2] = <<LongValue(1)>>
    /\ codec = "Deflate"
    /\ sink = ExpectedHeader(FALSE) \o ExpectedBlocks(hist)

\* the positions of the sink at which a complete header starts
HeaderPositions ==
    {p \in 1..Len(sink) :
        /\ sink[p] = 79
        /\ \E schemaFirst \in BOOLEAN :
              LET h == ExpectedHeader(schemaFirst)
              IN  /\ p + Len(h) - 1 <= Len(sink)
                  /\ SubSeq(sink, p, p + Len(h) - 1) = h}

HeaderLen == Len(ExpectedHeader(TRUE))

\* the sink holds exactly one header, and every block starts after its end
OneHeaderBeforeBlocks ==
    /\ Cardinality(HeaderPositions) = 1
    /\ \A p \in HeaderPositions : \A b \in blk_starts : p + HeaderLen - 1 <= b

\* C2 as stated: after any number (>= 1) of append/extend calls on one
\* Writer, the sink contains exactly one header, and it precedes every block.
C2_Original ==
    (IsAppendOrExtend(last.op) /\ ~explicit_hdr) => OneHeaderBeforeBlocks

\* C2 (amended): after append/extend calls of which at least one returned Ok
\* (and no explicit header call), the sink contains exactly one complete
\* header, and it precedes every block.
C2_HeaderOnce ==
    (hist # <<>> /\ ~explicit_hdr) => OneHeaderBeforeBlocks

\* two successful calls, hence two blocks, after one header
C2_Witness ==
    /\ Len(hist) = 2
    /\ ~explicit_hdr
    /\ Cardinality(blk_starts) = 2
    /\ HeaderPositions = {1}

\* C3: an append/extend call with a value that does not match the schema
\* fails with the schema-mismatch error and leaves the sink exactly as it was
\* before the call, wherever the value stands in the batch and whether or not
\* the header was written.
C3_MismatchWritesNothing ==
    (IsAppendOrExtend(last.op) /\ \E i \in 1..Len(last.vals) : last.vals[i].kind # "long")
        => (~last.ok /\ last.err = "schema" /\ sink = last.pre)

\* the mismatching value comes second, after the header and a block were written
C3_Witness ==
    /\ last.op = "extend"
    /\ last.vals = <<LongValue(1), StringValue(<<120>>)>>
    /\ has_header
    /\ Len(hist) = 1
    /\ last.err = "schema"
    /\ sink = ExpectedHeader(TRUE) \o ExpectedBlocks(hist)

\* C4: the marker never changes after construction, and the 16 bytes written
\* at the end of the header and at the end of every block are that marker.
C4_MarkerFixed ==
    /\ marker = marker0
    /\ Len(marker0) = 16
    /\ \A p \in marks : p >= 16 /\ SubSeq(sink, p - 15, p) = marker0
    /\ hdr_ends \subseteq marks
    /\ (IsAppendOrExtend(last.op) /\ last.ok) => Len(sink) \in marks

\* a header and two blocks end with the second of the markers
C4_Witness ==
    /\ Cardinality(marks) = 3
    /\ Cardinality(hdr_ends) = 1
    /\ marker0[1] # marker0[2]
    /\ Len(sink) \in marks

\* C5: a successful append/extend call returns the number of bytes it wrote
\* to the sink, the header's bytes included when the call emitted the header.
C5_ReturnsBytesWritten ==
    (IsAppendOrExtend(last.op) /\ last.ok) => last.n = Len(sink) - Len(last.pre)

\* C6: the flag starts false and is true after the first append/extend call
\* that writes the header; in particular it is true after an explicit
\* header() call that succeeded.
C6_FlagSetByHeader ==
    /\ (ncalls = 0) => ~has_header
    /\ (IsAppendOrExtend(last.op) /\ last.ok) => has_header
    /\ (last.op = "header" /\ last.ok) => has_header

----------------------------------------------------------------------------
(* Decimal: the integers and exact arithmetic the properties are stated in *)

Max(x, y) == IF x >= y THEN x ELSE y

\* a.value * 10^(m - a.scale) = b.value * 10^(m - b.scale), m the larger scale
ExactlyEqual(a, b) ==
    LET m == Max(a.scale, b.scale)
    IN  BigMul(a.value, BigPow10(m - a.scale)) = BigMul(b.value, BigPow10(m - b.scale))

\* C7: a == b holds exactly when the unscaled values agree after scaling both
\* to the larger scale; precision plays no part.
C7_EqIsScaledEquality ==
    (eq_res # "none") => ((eq_res = "true") <=> ExactlyEqual(da, db))

ScaleDifference == IF da.scale >= db.scale THEN da.scale - db.scale ELSE db.scale - da.scale

\* C8: the multiplier for a scale difference d is exactly 10^d, also when
\* 10^d exceeds 2^64, and the comparison does not abort.
C8_MultiplierIsExactPower ==
    (eq_res # "none" /\ da.scale # db.scale) =>
        (eq_res # "panic" /\ eq_mult = BigPow10(ScaleDifference))

\* the machine integer of a BigInt of at most four digits
RECURSIVE MagToNat(_)
MagToNat(m) == IF m = <<>> THEN 0 ELSE Head(m) + 256 * MagToNat(Tail(m))
BigToInt(v) == IF v.sign = "Minus" THEN -MagToNat(v.mag) ELSE MagToNat(v.mag)

\* the least number of bytes that hold v in two's complement
MinTwosLen(v) ==
    IF -128 <= v /\ v <= 127 THEN 1
    ELSE IF -32768 <= v /\ v <= 32767 THEN 2
    ELSE IF -8388608 <= v /\ v <= 8388607 THEN 3
    ELSE 4

\* v in two's complement on n bytes, big-endian (n at least MinTwosLen(v))
RECURSIVE Pow256(_)
Pow256(i) == IF i = 0 THEN 1 ELSE 256 * Pow256(i - 1)
TwosBytes(v, n) == [i \in 1..n |-> (v \div Pow256(n - i)) % 256]

\* the integer a big-endian two's-complement byte string stands for
RECURSIVE TwosValue(_, _)
TwosValue(bs, acc) ==
    IF bs = <<>> THEN acc ELSE TwosValue(Tail(bs), 256 * acc + Head(bs))
FromTwos(bs) ==
    IF bs = <<>> THEN 0
    ELSE TwosValue(Tail(bs), IF Head(bs) >= 128 THEN Head(bs) - 256 ELSE Head(bs))

EvaluatedBytes == bytes_res # NoBytes

\* C9: for len at least the minimal two's-complement length n of the value,
\* the result is len bytes: len - n bytes of 0xFF for a negative value and of
\* 0x00 otherwise, then the minimal representation; read as a two's-complement
\* big-endian integer it is the value.
C9_SignExtended ==
    LET v == BigToInt(da.value)
        n == MinTwosLen(v)
    IN  (EvaluatedBytes /\ dlen >= n) =>
            /\ bytes_res.ok
            /\ Len(bytes_res.bytes) = dlen
            /\ \A i \in 1..(dlen - n) : bytes_res.bytes[i] = IF v < 0 THEN 255 ELSE 0
            /\ SubSeq(bytes_res.bytes, dlen - n + 1, dlen) = TwosBytes(v, n)
            /\ FromTwos(bytes_res.bytes) = v

\* -1 on two bytes is FF FF
C9_Witness ==
    /\ EvaluatedBytes
    /\ BigToInt(da.value) = -1
    /\ dlen = 2
    /\ bytes_res = OkBytes(<<255, 255>>)

\* C10: the conversion fails exactly when len is smaller than the minimal
\* two's-complement length n of the value; the failure carries requested =
\* len and needed = n, and no bytes.
C10_FailsIffTooShort ==
    LET v == BigToInt(da.value)
        n == MinTwosLen(v)
    IN  EvaluatedBytes =>
            /\ ~bytes_res.ok <=> dlen < n
            /\ ~bytes_res.ok => bytes_res = SignExtendErr(dlen, n)

\* 128 on one byte fails: requested 1, needed 2
C10_Witness ==
    /\ EvaluatedBytes
    /\ BigToInt(da.value) = 128
    /\ dlen = 1
    /\ bytes_res = [ok |-> FALSE, bytes |-> <<>>, requested |-> 1, needed |-> 2]

----------------------------------------------------------------------------
(* The writer's calls compared with one another and with the sink before   *)
(* them.                                                                   *)

\* the step is a call on the writer (header, append or extend)
IsCall == ncalls' = ncalls + 1 /\ ~released'

\* the step's effect and result are those of the call's progress record out
SameOutcome(out) ==
    \E o \in {out} :
        /\ sink' = o.w.sink
        /\ has_header' = o.w.has_header
        /\ last'.ok = o.ok
        /\ last'.err = o.err
        /\ last'.n = o.n

\* the sink fault and the codec error among a call's inputs are those the
\* step ran into
SameFailures(fuse, codecFails) ==
    /\ (fuse > 0) = (last'.err = "io")
    /\ codecFails = (last'.err = "codec")

\* C11: append(value) is equivalent to extend([value]): from the same writer
\* state, whatever append(value) does to the sink and the header flag and
\* whatever it returns, extend([value]) does and returns under the same
\* sink fault, codec error and metadata order, and the other way round.
C11_AppendIsExtend ==
    [][ /\ (IsCall /\ last'.op = "append") =>
              \E fuse \in 0..(HeaderWrites + BlockWrites),
                 codecFails \in BOOLEAN, schemaFirst \in BOOLEAN :
                  /\ CanCall(fuse, codecFails, schemaFirst, ~has_header)
                  /\ SameFailures(fuse, codecFails)
                  /\ SameOutcome(Extend(Start(WriterRec, fuse), last'.vals,
                                        codecFails, schemaFirst))
        /\ (IsCall /\ last'.op = "extend" /\ Len(last'.vals) = 1) =>
              \E fuse \in 0..(HeaderWrites + BlockWrites),
                 codecFails \in BOOLEAN, schemaFirst \in BOOLEAN :
                  /\ CanCall(fuse, codecFails, schemaFirst, ~has_header)
                  /\ SameFailures(fuse, codecFails)
                  /\ SameOutcome(AppendOne(Start(WriterRec, fuse), last'.vals[1],
                                           codecFails, schemaFirst))
      ]_vars

\* a first append on a compressing writer: the header, then a block of one value
C11_Witness ==
    /\ last.op = "append"
    /\ last.ok
    /\ last.hdr_due
    /\ codec = "Snappy"
    /\ last.vals = <<LongValue(64)>>
    /\ sink = ExpectedHeader(FALSE) \o ExpectedBlock(<<LongValue(64)>>)

\* the canonical names "null", "deflate", "snappy" in ASCII
CanonicalName(c) ==
    CASE c = "Null" -> <<110, 117, 108, 108>>
      [] c = "Deflate" -> <<100, 101, 102, 108, 97, 116, 101>>
      [] c = "Snappy" -> <<115, 110, 97, 112, 112, 121>>

\* a metadata map of two entries: the count 2, each entry as its key and its
\* value with their lengths before them, and the end of the map
MetadataBlock(k1, v1, k2, v2) ==
    <<4>> \o EncodeBytes(k1) \o EncodeBytes(v1) \o EncodeBytes(k2) \o EncodeBytes(v2) \o <<0>>

\* the metadata of the header, in either order of its two entries
MetadataBlocks ==
    { MetadataBlock(KeySchema, SchemaJson, KeyCodec, CanonicalName(codec)),
      MetadataBlock(KeyCodec, CanonicalName(codec), KeySchema, SchemaJson) }

\* C12: a successful header() call appends the magic 'O','b','j',1, then the
\* metadata map with exactly the entries avro.schema (the schema's JSON text)
\* and avro.codec (the canonical name of the codec chosen at construction),
\* then the 16-byte marker, and returns the number of bytes it wrote.
C12_HeaderLayout ==
    (last.op = "header" /\ last.ok) =>
        /\ \E meta \in MetadataBlocks :
              sink = last.pre \o <<79, 98, 106, 1>> \o meta \o marker0
        /\ Len(marker0) = 16
        /\ last.n = Len(sink) - Len(last.pre)

\* header() on a Snappy writer, called after a block was written
C12_Witness ==
    /\ last.op = "header"
    /\ last.ok
    /\ codec = "Snappy"
    /\ Len(hist) = 1
    /\ Len(sink) = Len(last.pre) + last.n
    /\ last.n > 40

IsPrefix(a, b) == Len(a) <= Len(b) /\ SubSeq(b, 1, Len(a)) = a

\* C13: the sink is append-only: under every step (header, append, extend,
\* successful or failing, and into_inner) the sink before the step is a
\* prefix of the sink after it.
C13_AppendOnly == [][IsPrefix(sink, sink')]_vars

\* a call that failed part-way, after a successful one: the earlier bytes stand
C13_Witness ==
    /\ Len(hist) = 1
    /\ last.err = "io"
    /\ last.pre = ExpectedHeader(TRUE) \o ExpectedBlocks(hist)
    /\ Len(sink) > Len(last.pre)
    /\ IsPrefix(last.pre, sink)

\* the writes of the last append/extend call in order, were they all to
\* succeed: the header's three (if the header was due), then count, length,
\* payload and marker
CallWrites(meta) ==
    (IF last.hdr_due THEN << <<79, 98, 106, 1>>, meta, marker0 >> ELSE << >>)
    \o << EncodeLong(Len(last.vals)),
          EncodeLong(Len(Compress(codec, Encodings(last.vals)))),
          Compress(codec, Encodings(last.vals)),
          marker0 >>

\* C14: an append/extend call in which a sink write fails returns the I/O
\* error, and what it appended is the first k of its writes for some k short
\* of all of them: nothing is written after the failed write, and the call's
\* trailing marker is never written.
C14_FailStopsWrites ==
    (IsAppendOrExtend(last.op) /\ last.err = "io") =>
        /\ ~last.ok
        /\ \E meta \in MetadataBlocks :
              \E k \in 0..(HeaderWrites + BlockWrites - 1) :
                  /\ k < Len(CallWrites(meta))
                  /\ sink = last.pre \o Flatten(SubSeq(CallWrites(meta), 1, k))
        /\ \A meta \in MetadataBlocks : sink # last.pre \o Flatten(CallWrites(meta))

\* the payload write fails: header, count and length are in the sink
C14_Witness ==
    /\ last.op = "extend"
    /\ last.err = "io"
    /\ last.hdr_due
    /\ last.vals = <<LongValue(1), LongValue(64)>>
    /\ codec = "Null"
    /\ sink = ExpectedHeader(TRUE) \o <<4, 6>>

\* the call returned before its first sink write: a value did not match the
\* schema, or the codec returned an error
FailedEarly(call) == IsAppendOrExtend(call.op) /\ call.err \in {"schema", "codec"}

\* C16: an append/extend call that fails by a schema mismatch or a codec
\* error leaves sink, header flag, marker and codec as they were; if the
\* header was still due at that call, the next successful append/extend call
\* appends the header before anything else.
C16_EarlyFailureNoEffect ==
    [][ /\ (IsCall /\ FailedEarly(last')) =>
              /\ sink' = sink
              /\ has_header' = has_header
              /\ marker' = marker
              /\ codec' = codec
        /\ (IsCall /\ FailedEarly(last) /\ last.hdr_due
               /\ IsAppendOrExtend(last'.op) /\ last'.ok) =>
              \E schemaFirst \in BOOLEAN :
                  IsPrefix(sink \o ExpectedHeader(schemaFirst), sink')
      ]_vars

\* a first call that failed early, then a successful one that starts the file
C16_Witness ==
    /\ ncalls = 2
    /\ ~faulted
    /\ ~explicit_hdr
    /\ ~released
    /\ Len(hist) = 1
    /\ last.ok
    /\ last.hdr_due
    /\ last.pre = <<>>
    /\ codec = "Deflate"
    /\ sink = ExpectedHeader(FALSE) \o ExpectedBlocks(hist)

\* C17: the flag becomes true only in an append/extend call, and only once
\* that call has appended a complete header; it is never reset; an
\* append/extend call whose sink write fails while the header is being
\* written leaves the flag false and writes no part of a block; so whenever
\* the flag is true a header() call has completed.
C17_FlagAfterHeader ==
    [][ /\ (has_header' /\ ~has_header) =>
              /\ IsCall
              /\ IsAppendOrExtend(last'.op)
              /\ \E schemaFirst \in BOOLEAN :
                    IsPrefix(sink \o ExpectedHeader(schemaFirst), sink')
        /\ has_header => has_header'
        /\ has_header' => hdr_ends' # {}
        /\ (IsCall /\ IsAppendOrExtend(last'.op) /\ ~has_header
               /\ last'.err = "io" /\ Len(sink') - Len(sink) < HeaderLen) =>
              /\ ~has_header'
              /\ blk_starts' = blk_starts
              /\ \E schemaFirst \in BOOLEAN :
                    IsPrefix(sink', sink \o ExpectedHeader(schemaFirst))
      ]_vars

\* the metadata write of the header fails: the magic is in the sink, the
\* flag is false, no block was started
C17_Witness ==
    /\ IsAppendOrExtend(last.op)
    /\ last.err = "io"
    /\ last.hdr_due
    /\ sink = last.pre \o <<79, 98, 106, 1>>
    /\ ~has_header
    /\ blk_starts = {}

\* C19: construction and into_inner write nothing: before the first call the
\* sink is as it was given (empty) and the header flag is false; the step of
\* into_inner leaves the sink exactly as the preceding calls left it, also
\* when there was no call at all; once released, the sink is not written to.
C19_NoWriteOutsideCalls ==
    [][ /\ (ncalls = 0) => (sink = <<>> /\ ~has_header)
        /\ (released' /\ ~released) => sink' = sink
        /\ (released' /\ last' = NoCall) => sink' = <<>>
        /\ released => (released' /\ sink' = sink)
      ]_vars

\* a writer released after one successful call: the sink holds header and block
C19_Witness ==
    /\ released
    /\ IsAppendOrExtend(last.op)
    /\ last.ok
    /\ Len(hist) = 1
    /\ sink = ExpectedHeader(TRUE) \o ExpectedBlocks(hist)

\* C20: extend with no values succeeds (unless the sink or the codec fails)
\* and appends a block: the header first if the flag was false, the flag
\* being true afterwards, then the count 0, the length of the codec's output
\* for the empty input, that output, and the marker.
C20_EmptyExtendWritesBlock ==
    (last.op = "extend" /\ last.vals = <<>> /\ last.err \notin {"io", "codec"}) =>
        /\ last.ok
        /\ has_header
        /\ \E meta \in MetadataBlocks :
              sink = last.pre
                     \o (IF last.hdr_due THEN <<79, 98, 106, 1>> \o meta \o marker0 ELSE <<>>)
                     \o <<0>>
                     \o EncodeLong(Len(Compress(codec, <<>>)))
                     \o Compress(codec, <<>>)
                     \o marker0

\* an empty first extend on a Deflate writer: header, count 0, length 5, the
\* five bytes of an empty deflate stream, marker
C20_Witness ==
    /\ last.op = "extend"
    /\ last.vals = <<>>
    /\ last.ok
    /\ last.hdr_due
    /\ codec = "Deflate"
    /\ sink = ExpectedHeader(TRUE) \o <<0, 10, 1, 0, 0, 255, 255>> \o marker0

----------------------------------------------------------------------------
(* Decimal equality as a relation *)

\* C18: Decimal equality is an equivalence relation that ignores precision:
\* a == a; a == b implies b == a; a == b and b == c imply a == c; and the
\* precision of an operand does not change the result.
C18_EqIsEquivalence ==
    (rel # NoRel) =>
        /\ rel.aa = "true"
        /\ (rel.ab = "true") => (rel.ba = "true")
        /\ (rel.ab = "true" /\ rel.bc = "true") => (rel.ac = "true")
        /\ rel.abp = rel.ab

====
